---------------------------- MODULE Spec2Model ----------------------------
(***************************************************************************)
(* A model of the portfolio site: the blog post template (PostTemplate and *)
(* its pageQuery), the SSR head hook (onRenderBody) with the two analytics *)
(* scripts it injects, and the Lit replication procedures listed in the    *)
(* blog post content.                                                      *)
(*                                                                         *)
(* Text is modelled as sequences of one-character strings, so that         *)
(* kebabCase and the link templates are computed character by character.   *)
(***************************************************************************)
EXTENDS Integers, Sequences, FiniteSets, TLC

VARIABLES
    nodes,      \* the markdown nodes of the content layer, in source order
    ssr,        \* the build-time render of a post page
    client,     \* the client-side (hydration) render of that page
    head,       \* the SSR setter calls of the last onRenderBody
    browser,    \* a browser that loaded a built page: its scripts and dataLayer
    commits,    \* Lit: the commits created so far, hash -> set of parent hashes
    replica,    \* Lit: per replica, its object store and its refs
    remote,     \* Lit: the object store and the branch ref of the remote
    pushing,    \* Lit: per replica, the push or fetch in progress
    merging     \* Lit: a file merge, its three versions and its two results

postVars == <<nodes, ssr, client>>
headVars == <<head, browser>>
litVars == <<commits, replica, remote, pushing>>
mergeVars == <<merging>>
vars == <<nodes, ssr, client, head, browser, commits, replica, remote, pushing, merging>>

(***************************************************************************)
(* Bounds of the model.                                                    *)
(***************************************************************************)
MaxNodes == 2
MaxTags == 2
MaxTagLen == 2
MaxCommits == 3
MaxFileLen == 3
MaxStash == 1

(***************************************************************************)
(* Small helpers.                                                          *)
(***************************************************************************)
SeqsUpTo(S, n) == UNION {[1..k -> S] : k \in 0..n}

RECURSIVE Flatten(_)
Flatten(ss) == IF ss = <<>> THEN <<>> ELSE Head(ss) \o Flatten(Tail(ss))

(***************************************************************************)
(* lodash/kebabCase, on the characters of Alphabet: the string is split    *)
(* into words at separators, at a lower-to-upper step and before the last  *)
(* capital of a run of capitals followed by a lower-case letter; the words *)
(* are lower-cased and joined with "-".                                    *)
(***************************************************************************)
Alphabet == {"D", "s", " "}

IsUpper(c) == c = "D"
IsLower(c) == c = "s"
IsLetter(c) == IsUpper(c) \/ IsLower(c)
toLowerCase(c) == IF c = "D" THEN "d" ELSE c

\* A word starts at position i of s.
WordStart(s, i) ==
    /\ IsLetter(s[i])
    /\ \/ i = 1
       \/ ~IsLetter(s[i-1])
       \/ IsLower(s[i-1]) /\ IsUpper(s[i])
       \/ /\ IsUpper(s[i-1]) /\ IsUpper(s[i])
          /\ i < Len(s) /\ IsLower(s[i+1])

RECURSIVE WordEnd(_, _)
\* The last position of the word that starts at position i of s.
WordEnd(s, i) ==
    IF i < Len(s) /\ IsLetter(s[i+1]) /\ ~WordStart(s, i+1)
    THEN WordEnd(s, i+1) ELSE i

RECURSIVE wordsFrom(_, _)
wordsFrom(s, i) ==
    IF i > Len(s) THEN <<>>
    ELSE IF WordStart(s, i)
         THEN <<SubSeq(s, i, WordEnd(s, i))>> \o wordsFrom(s, WordEnd(s, i) + 1)
         ELSE wordsFrom(s, i + 1)

words(s) == wordsFrom(s, 1)

kebabCase(s) ==
    LET ws == words(s)
        piece(k) == (IF k = 1 THEN <<>> ELSE <<"-">>)
                    \o [j \in 1..Len(ws[k]) |-> toLowerCase(ws[k][j])]
    IN  Flatten([k \in 1..Len(ws) |-> piece(k)])

(***************************************************************************)
(* new Date(date).toLocaleDateString('en-US', {year, month: 'long', day}). *)
(* A frontmatter date is a calendar date; the query delivers it as the     *)
(* instant of its UTC midnight, and the formatter prints the calendar date *)
(* of that instant in the time zone of the rendering environment.          *)
(***************************************************************************)
MonthName == <<"January", "February", "March", "April", "May", "June", "July",
               "August", "September", "October", "November", "December">>

\* Days from 1970-01-01 to the civil date y-m-d.
DaysFromCivil(y, m, d) ==
    LET yy  == IF m <= 2 THEN y - 1 ELSE y
        era == yy \div 400
        yoe == yy - era * 400
        mp  == IF m > 2 THEN m - 3 ELSE m + 9
        doy == (153 * mp + 2) \div 5 + d - 1
        doe == yoe * 365 + yoe \div 4 - yoe \div 100 + doy
    IN  era * 146097 + doe - 719468

\* The civil date of day number z.
CivilFromDays(z) ==
    LET zz  == z + 719468
        era == zz \div 146097
        doe == zz - era * 146097
        yoe == (doe - doe \div 1460 + doe \div 36524 - doe \div 146096) \div 365
        doy == doe - (365 * yoe + yoe \div 4 - yoe \div 100)
        mp  == (5 * doy + 2) \div 153
        d   == doy - (153 * mp + 2) \div 5 + 1
        m   == IF mp < 10 THEN mp + 3 ELSE mp - 9
        y   == yoe + era * 400 + (IF m <= 2 THEN 1 ELSE 0)
    IN  [year |-> y, month |-> m, day |-> d]

\* new Date(date): minutes since the epoch of the date's UTC midnight.
NewDate(date) == DaysFromCivil(date.year, date.month, date.day) * 1440

\* The en-US long form of a calendar date, e.g. October 5, 2023.
LongForm(c) == [month |-> MonthName[c.month], day |-> c.day, year |-> c.year]

\* toLocaleDateString in an environment tz minutes east of UTC.
toLocaleDateString(t, tz) == LongForm(CivilFromDays((t + tz) \div 1440))

(***************************************************************************)
(* Values of the content layer.                                            *)
(***************************************************************************)
Null(k) == [kind |-> k, items |-> <<>>]
List(ts) == [kind |-> "list", items |-> ts]

Paths == {"/blog/lit", "/pensieve/seoul"}
TimeZones == {-300, 0, 540}

\* The title, date and html of a post. Markdown is turned into HTML with its
\* raw HTML kept (the posts embed img elements): an html value is a sequence
\* of fragments, each a paragraph, an img element or a script element.
Contents ==
    {[title |-> "Seoul Exploration", html |-> <<"p", "img">>,
      date |-> [year |-> 2023, month |-> 10, day |-> 5]],
     [title |-> "Building Lit", html |-> <<"img", "p">>,
      date |-> [year |-> 2025, month |-> 1, day |-> 14]],
     [title |-> "Notes", html |-> <<"p", "script">>,
      date |-> [year |-> 2024, month |-> 3, day |-> 1]]}

TagSamples == {Null("null"), Null("undefined"), List(<<>>),
               List(<<<<"D", "D", "s">>, <<"D", " ", "s">>>>)}

Node(slug, c, tags) ==
    [frontmatter |-> [title |-> c.title, date |-> c.date, slug |-> slug, tags |-> tags],
     html |-> c.html]

Nodes == {Node(p, c, g) : p \in Paths, c \in Contents, g \in TagSamples}

\* A query that has lost its slug filter: the first node, whatever its slug.
pageQuery_AnySlug(ns, path) ==
    [hasData |-> TRUE,
     markdownRemark |-> IF ns = <<>> THEN [isNull |-> TRUE]
                        ELSE [isNull |-> FALSE, frontmatter |-> Head(ns).frontmatter,
                              html |-> Head(ns).html]]

(***************************************************************************)
(* pageQuery: markdownRemark(frontmatter: {slug: {eq: $path}}), the first  *)
(* node with that slug, or null.                                           *)
(***************************************************************************)
RECURSIVE markdownRemark(_, _)
markdownRemark(ns, path) ==
    IF ns = <<>> THEN [isNull |-> TRUE]
    ELSE IF Head(ns).frontmatter.slug = path
         THEN [isNull |-> FALSE, frontmatter |-> Head(ns).frontmatter,
               html |-> Head(ns).html]
         ELSE markdownRemark(Tail(ns), path)

pageQuery(ns, path) == [hasData |-> TRUE, markdownRemark |-> markdownRemark(ns, path)]

(***************************************************************************)
(* PostTemplate.                                                           *)
(***************************************************************************)
\* A map whose link target is the tag as written, without kebabCase.
MapTags_RawTarget(tags) ==
    IF tags.kind = "list"
    THEN [threw |-> FALSE,
          value |-> [i \in 1..Len(tags.items) |->
                       [key  |-> i - 1,
                        to   |-> <<"/blog/tags/">> \o tags.items[i] \o <<"/">>,
                        text |-> <<"#">> \o tags.items[i]]]]
    ELSE [threw |-> TRUE, value |-> <<>>]

\* A map that keys each link by its tag instead of its index.
MapTags_KeyByTag(tags) ==
    IF tags.kind = "list"
    THEN [threw |-> FALSE,
          value |-> [i \in 1..Len(tags.items) |->
                       [key  |-> kebabCase(tags.items[i]),
                        to   |-> <<"/blog/tags/">> \o kebabCase(tags.items[i]) \o <<"/">>,
                        text |-> <<"#">> \o tags.items[i]]]]
    ELSE [threw |-> TRUE, value |-> <<>>]

\* tags.map((tag, i) => <Link key={i} to={...} className="tag">#{tag}</Link>);
\* calling map on null or undefined throws a TypeError.
MapTags(tags) ==
    IF tags.kind = "list"
    THEN [threw |-> FALSE,
          value |-> [i \in 1..Len(tags.items) |->
                       [key  |-> i - 1,
                        to   |-> <<"/blog/tags/">> \o kebabCase(tags.items[i]) \o <<"/">>,
                        text |-> <<"#">> \o tags.items[i]]]]
    ELSE [threw |-> TRUE, value |-> <<>>]

\* A template that maps the tags without guarding them.
TagsGuard_Missing(tags) == TRUE

\* tags && tags.length > 0
TagsGuard(tags) == tags.kind = "list" /\ Len(tags.items) > 0

\* {tags && tags.length > 0 && tags.map(...)}: a falsy guard renders nothing.
TagLinks(tags) ==
    IF TagsGuard(tags) THEN MapTags(tags) ELSE [threw |-> FALSE, value |-> <<>>]

\* A sanitizing step: the html without its script elements.
Sanitize(html) == SelectSeq(html, LAMBDA f : f # "script")

\* What is handed to dangerouslySetInnerHTML of the post content container.
InnerHTML(html) == html

Thrown == [status |-> "error"]

PostTemplate(data, location, tz) ==
    IF ~data.hasData \/ data.markdownRemark.isNull
    THEN Thrown   \* destructuring undefined or null throws a TypeError
    ELSE LET frontmatter == data.markdownRemark.frontmatter
             html == data.markdownRemark.html
             links == TagLinks(frontmatter.tags)
         IN  IF links.threw THEN Thrown
             ELSE [status   |-> "ok",
                   location |-> location,
                   helmet   |-> frontmatter.title,
                   heading  |-> frontmatter.title,
                   time     |-> toLocaleDateString(NewDate(frontmatter.date), tz),
                   links    |-> links.value,
                   content  |-> InnerHTML(html)]

(***************************************************************************)
(* The post pages: sourcing nodes, the build-time render, hydration.       *)
(***************************************************************************)
NoPage == [status |-> "none"]
NoRender == [path |-> "", tz |-> 0, data |-> [hasData |-> FALSE], page |-> NoPage]

PostInit ==
    /\ nodes = <<>>
    /\ ssr = NoRender
    /\ client = [tz |-> 0, page |-> NoPage]

\* A markdown file is turned into a node of the content layer.
SourceNode(n) ==
    /\ Len(nodes) < MaxNodes
    /\ nodes' = Append(nodes, n)
    /\ UNCHANGED <<ssr, client, headVars, litVars, mergeVars>>

\* The page at `path` is rendered at build time in an environment of zone tz.
BuildPage(path, tz) ==
    /\ LET data == pageQuery(nodes, path)
       IN  ssr' = [path |-> path, tz |-> tz, data |-> data,
                   page |-> PostTemplate(data, path, tz)]
    /\ client' = [tz |-> 0, page |-> NoPage]
    /\ UNCHANGED <<nodes, headVars, litVars, mergeVars>>

\* The browser renders the built page again, with the page data of the build.
Hydrate(tz) ==
    /\ ssr.page.status = "ok"
    /\ client' = [tz |-> tz, page |-> PostTemplate(ssr.data, ssr.path, tz)]
    /\ UNCHANGED <<nodes, ssr, headVars, litVars, mergeVars>>

PostNext ==
    \/ \E n \in Nodes : SourceNode(n)
    \/ \E p \in Paths, tz \in TimeZones : BuildPage(p, tz)
    \/ \E tz \in TimeZones : Hydrate(tz)

\* The tag lists of the tag-link check: every list of at most MaxTags tags of
\* at most MaxTagLen characters.
TagStrings == SeqsUpTo(Alphabet, MaxTagLen)
TagLists == SeqsUpTo(TagStrings, MaxTags)

TagsInit ==
    /\ nodes \in {<<Node("/blog/lit", c, List(ts))>> :
                    c \in {x \in Contents : x.title = "Building Lit"}, ts \in TagLists}
    /\ ssr = NoRender
    /\ client = [tz |-> 0, page |-> NoPage]

TagsNext == \E p \in Paths : BuildPage(p, 0)

(***************************************************************************)
(* gatsby-ssr.js: onRenderBody, and the two analytics scripts it injects.  *)
(***************************************************************************)
Element(type, key) == [type |-> type, key |-> key]

HeadComponents ==
    <<Element("link", "apple-touch-icon"),
      Element("link", "icon32"),
      Element("link", "icon16"),
      Element("link", "manifest"),
      Element("link", "mask-icon"),
      Element("meta", "msapplication-TileColor"),
      Element("meta", "theme-color"),
      Element("script", "gtag"),
      Element("script", "gtag-init")>>

setHeadComponents(components) == [setter |-> "setHeadComponents", components |-> components]

\* A hook that leaves the analytics scripts out of the home page.
onRenderBody_PerPage(pathname) ==
    IF pathname = "/" THEN <<setHeadComponents(SubSeq(HeadComponents, 1, 7))>>
    ELSE <<setHeadComponents(HeadComponents)>>

\* The SSR setter calls onRenderBody makes for the page at pathname.
onRenderBody(pathname) == <<setHeadComponents(HeadComponents)>>

Pathnames == Paths \cup {"/"}

\* window.dataLayer: undefined, or an array of entries; error names the
\* exception a script raised on it.
UndefinedLayer == [defined |-> FALSE, entries |-> <<>>, error |-> "none"]
\* window.dataLayer || []
OrEmpty(layer) == [layer EXCEPT !.defined = TRUE]
\* dataLayer.push(e); on an undefined dataLayer it raises and creates nothing.
Push(layer, e) ==
    IF layer.defined THEN [layer EXCEPT !.entries = Append(@, e)]
    ELSE [layer EXCEPT !.error = "ReferenceError"]

\* An inline script that starts from a fresh array: window.dataLayer = [].
InitScript_Reset(layer) ==
    Push(Push([defined |-> TRUE, entries |-> <<>>, error |-> "none"], "js"), "config")

\* The inline script: window.dataLayer = window.dataLayer || [];
\* gtag('js', new Date()); gtag('config', 'G-KBJ3HD59L2');
InitScript(layer) == Push(Push(OrEmpty(layer), "js"), "config")

\* The events the loaded gtag library reports on the dataLayer by itself.
LoaderEvents == {"gtm.dom", "gtm.load"}

NotLoaded == [page |-> "", scripts |-> {}, ran |-> {}, dataLayer |-> UndefinedLayer]

HeadInit ==
    /\ head = [pathname |-> "", calls |-> <<>>]
    /\ browser = NotLoaded

\* The page at pathname is rendered: Gatsby calls onRenderBody once.
OnRenderBody(pathname) ==
    /\ head' = [pathname |-> pathname, calls |-> onRenderBody(pathname)]
    /\ UNCHANGED <<browser, postVars, litVars, mergeVars>>

\* A browser loads the page rendered last, with the scripts of its head.
LoadPage ==
    /\ head.pathname # ""
    /\ browser' = [page |-> head.pathname,
                   scripts |-> {c.key : c \in {x \in {head.calls[i].components[j] :
                                    i \in 1..Len(head.calls),
                                    j \in 1..Len(HeadComponents)} : x.type = "script"}},
                   ran |-> {},
                   dataLayer |-> UndefinedLayer]
    /\ UNCHANGED <<head, postVars, litVars, mergeVars>>

\* The inline script runs, to completion.
RunInitScript ==
    /\ "gtag-init" \in browser.scripts \ browser.ran
    /\ browser' = [browser EXCEPT !.ran = @ \cup {"gtag-init"},
                                  !.dataLayer = InitScript(@)]
    /\ UNCHANGED <<head, postVars, litVars, mergeVars>>

\* The async script has been fetched and runs: the library takes the
\* dataLayer, creating it when absent.
RunLoader ==
    /\ "gtag" \in browser.scripts \ browser.ran
    /\ browser' = [browser EXCEPT !.ran = @ \cup {"gtag"},
                                  !.dataLayer = OrEmpty(@)]
    /\ UNCHANGED <<head, postVars, litVars, mergeVars>>

\* The loaded library reports an event, once per event.
LoaderEvent(e) ==
    /\ "gtag" \in browser.ran
    /\ \A i \in 1..Len(browser.dataLayer.entries) : browser.dataLayer.entries[i] # e
    /\ browser' = [browser EXCEPT !.dataLayer = Push(@, e)]
    /\ UNCHANGED <<head, postVars, litVars, mergeVars>>

HeadNext ==
    \/ \E p \in Pathnames : OnRenderBody(p)
    \/ LoadPage
    \/ RunInitScript
    \/ RunLoader
    \/ \E e \in LoaderEvents : LoaderEvent(e)

(***************************************************************************)
(* Lit, as listed in the blog post: the commit DAG, fetch, push, merge.    *)
(***************************************************************************)
Replicas == {"A", "B"}
None == 0

RECURSIVE Ancestors(_, _)
\* _get_all_ancestors: the commits reachable from c in the DAG cs, c included.
Ancestors(cs, c) ==
    IF c = None THEN {} ELSE {c} \cup UNION {Ancestors(cs, p) : p \in cs[c]}

is_ancestor(a, b) == a \in Ancestors(commits, b)

\* The objects reachable from local_hash that the remote branch does not reach.
find_missing_objects(local_hash, remote_hash) ==
    Ancestors(commits, local_hash) \ Ancestors(commits, remote_hash)

\* A merge base search that returns the farthest common ancestor.
find_merge_base_Farthest(cs, commit1, commit2) ==
    IF commit1 = commit2 THEN commit1
    ELSE LET common == Ancestors(cs, commit1) \cap Ancestors(cs, commit2)
         IN  IF common = {} THEN None
             ELSE CHOOSE c \in common : \A d \in common : c <= d

\* The closest common ancestor of two commits in the DAG cs, or None. Hashes
\* are numbered in the order the commits were made, so the closest is the latest.
find_merge_base(cs, commit1, commit2) ==
    IF commit1 = commit2 THEN commit1
    ELSE LET common == Ancestors(cs, commit1) \cap Ancestors(cs, commit2)
         IN  IF common = {} THEN None
             ELSE CHOOSE c \in common : \A d \in common : d <= c

\* The parents of the commit a three-way merge makes.
MergeParents(ours, theirs) == {ours, theirs}

\* A working directory left with conflict markers by a merge.
Conflicted == 0 - 1

\* A repository before anything is stored in it: HEAD names the branch main,
\* which does not exist yet; a tree is named by the commit that recorded it.
\* The stash stack is kept by its depth: no listed operation reads an entry.
NewRepository ==
    [objects |-> {}, main |-> None, origin_main |-> None, HEAD |-> "refs/heads/main",
     index |-> None, worktree |-> None, stash |-> 0]

\* clone: every object of the source is copied and its branch becomes the
\* remote-tracking branch; no local branch is made and nothing is checked out.
Clone(source) ==
    [NewRepository EXCEPT !.objects = source.objects, !.origin_main = source.main]

\* The walk over the history of c in the DAG cs finds every object in the
\* store of rep.
Readable(cs, rep, c) == Ancestors(cs, c) \subseteq rep.objects

\* A transfer loop that downloads every listed object, stored or not.
download_Always(rep, obj_hash) ==
    [replica |-> [rep EXCEPT !.objects = @ \cup {obj_hash}], transferred |-> {obj_hash}]

\* fetch, lines 257-258: obj_hash is downloaded and stored unless the store
\* has it already; transferred holds the object when it was downloaded.
download(rep, obj_hash) ==
    IF obj_hash \in rep.objects
    THEN [replica |-> rep, transferred |-> {}]
    ELSE [replica |-> [rep EXCEPT !.objects = @ \cup {obj_hash}],
          transferred |-> {obj_hash}]

\* A ref update that also moves the local branch to the remote's (a pull).
update_refs_AndCheckout(rep, rem) ==
    [rep EXCEPT !.origin_main = rem.main, !.main = rem.main, !.index = rem.main,
                !.worktree = rem.main]

\* fetch, lines 261-262: refs/remotes/origin/main is set to the remote's branch.
update_refs(rep, rem) == [rep EXCEPT !.origin_main = rem.main]

\* create_commit: a commit on top of HEAD, or a root commit on an unborn branch.
create_commit(cs, rep, h) ==
    [commits |-> cs @@ (h :> (IF rep.main = None THEN {} ELSE {rep.main})),
     replica |-> [rep EXCEPT !.objects = @ \cup {h}, !.main = h, !.index = h,
                             !.worktree = h]]

\* reset_hard(commit): the branch, the index and the files are set to commit.
reset_hard(rep, commit) ==
    [rep EXCEPT !.main = commit, !.index = commit, !.worktree = commit]

\* fast_forward(theirs): the branch, the index and the files move to theirs.
fast_forward(cs, rep, theirs) ==
    [commits |-> cs, replica |-> reset_hard(rep, theirs), message |-> "Fast-forward"]

\* three_way_merge(base, ours, theirs): the files are merged and committed
\* with both sides as parents; on a conflict the files are left with the
\* conflict markers and nothing is committed.
three_way_merge(cs, rep, h, ours, theirs, conflict) ==
    IF conflict
    THEN [commits |-> cs,
          replica |-> [rep EXCEPT !.worktree = Conflicted],
          message |-> "Conflict"]
    ELSE [commits |-> cs @@ (h :> MergeParents(ours, theirs)),
          replica |-> [rep EXCEPT !.objects = @ \cup {h}, !.main = h, !.index = h,
                                  !.worktree = h],
          message |-> "Merge made"]

\* merge(branch_name) for origin/main, on the repository rep; h is the hash a
\* new commit would get, conflict whether the two sides' files conflict. The
\* search for the merge base raises when a commit it walks is not stored.
merge(cs, rep, h, conflict) ==
    LET theirs == rep.origin_main
        ours == rep.main
        base == find_merge_base(cs, ours, theirs)
    IN  IF ours # theirs /\ ~(Readable(cs, rep, ours) /\ Readable(cs, rep, theirs))
        THEN [commits |-> cs, replica |-> rep, message |-> "raised"]
        ELSE IF base = theirs
        THEN [commits |-> cs, replica |-> rep, message |-> "Already up to date"]
        ELSE IF base = ours THEN fast_forward(cs, rep, theirs)
        ELSE three_way_merge(cs, rep, h, ours, theirs, conflict)

\* The merges that completed: the branch now holds the other side.
Completed == {"Already up to date", "Fast-forward", "Merge made"}

RECURSIVE replay(_, _, _, _)
\* rebase, lines 544-555: n commits are made one on top of the other, the
\* first with hash h.
replay(cs, rep, h, n) ==
    IF n = 0 THEN [commits |-> cs, replica |-> rep]
    ELSE LET c == create_commit(cs, rep, h)
         IN  replay(c.commits, c.replica, h + 1, n - 1)

\* rebase, line 538: the commits of head that are not below base.
get_commits_between(cs, base, head_hash) == Ancestors(cs, head_hash) \ Ancestors(cs, base)

\* rebase(upstream) for origin/main: HEAD is reset to it and the commits of
\* the branch since the merge base are made again on top.
rebase(cs, rep, h) ==
    LET onto == rep.origin_main
        head_hash == rep.main
        base == find_merge_base(cs, onto, head_hash)
    IN  IF onto # head_hash /\ ~(Readable(cs, rep, onto) /\ Readable(cs, rep, head_hash))
        THEN [commits |-> cs, replica |-> rep]
        ELSE replay(cs, reset_hard(rep, onto), h,
                    Cardinality(get_commits_between(cs, base, head_hash)))

\* The message argument of StashManager.push: None (the default) or a string.
NoMessage == [kind |-> "None", text |-> ""]
Messages == {NoMessage, [kind |-> "str", text |-> ""], [kind |-> "str", text |-> "wip"]}

\* message or f"WIP on {branch}": the name branch is not defined in push, so
\* the default is reached only to raise NameError.
RaisesNameError(message) == message.kind = "None" \/ message.text = ""

\* _push_to_stack(entry): the stash stack grows by one entry.
push_to_stack(rep) == [rep EXCEPT !.stash = @ + 1]

\* _reset_to_head: the index and the files are set to the commit of HEAD.
reset_to_head(rep) == [rep EXCEPT !.index = rep.main, !.worktree = rep.main]

\* StashManager.push(message): raises while the entry is built, or saves the
\* entry and resets the files.
stash_push(rep, message) ==
    IF RaisesNameError(message) THEN rep ELSE reset_to_head(push_to_stack(rep))

\* No push or fetch is running. A running push holds the hash it pushes and
\* the objects still to upload; a running fetch holds the listed objects still
\* to visit and the objects it has downloaded so far.
Idle == [pc |-> "idle", local_hash |-> None, missing |-> {}, listing |-> {},
         downloaded |-> {}]

\* Every replica is a clone of a remote that holds the root commit.
LitInit ==
    /\ commits = (1 :> {})
    /\ remote = [objects |-> {1}, main |-> 1]
    /\ replica = [r \in Replicas |-> Clone(remote)]
    /\ pushing = [r \in Replicas |-> Idle]

NextHash == Cardinality(DOMAIN commits) + 1

\* A replica commits on its branch, offline.
Commit(r) ==
    /\ pushing[r].pc = "idle"
    /\ NextHash <= MaxCommits
    /\ LET c == create_commit(commits, replica[r], NextHash)
       IN  /\ commits' = c.commits
           /\ replica' = [replica EXCEPT ![r] = c.replica]
    /\ UNCHANGED <<remote, pushing, postVars, headVars, mergeVars>>

\* fetch, line 256: the remote's objects are listed.
FetchList(r) ==
    /\ pushing[r].pc = "idle"
    /\ pushing' = [pushing EXCEPT ![r] = [Idle EXCEPT !.pc = "download",
                                                       !.listing = remote.objects]]
    /\ UNCHANGED <<commits, replica, remote, postVars, headVars, mergeVars>>

\* fetch, lines 256-258: the next listed object, in the order of the listing
\* (any order), is downloaded unless it is stored.
FetchDownload(r) ==
    /\ pushing[r].pc = "download"
    /\ \E obj_hash \in pushing[r].listing :
          LET d == download(replica[r], obj_hash)
          IN  /\ replica' = [replica EXCEPT ![r] = d.replica]
              /\ pushing' = [pushing EXCEPT ![r].listing = @ \ {obj_hash},
                                            ![r].downloaded = @ \cup d.transferred]
    /\ UNCHANGED <<commits, remote, postVars, headVars, mergeVars>>

\* fetch, lines 261-262: the remote's refs are read and the tracking ref set.
FetchRefs(r) ==
    /\ pushing[r].pc = "download"
    /\ pushing[r].listing = {}
    /\ replica' = [replica EXCEPT ![r] = update_refs(replica[r], remote)]
    /\ pushing' = [pushing EXCEPT ![r] = Idle]
    /\ UNCHANGED <<commits, remote, postVars, headVars, mergeVars>>

\* merge origin/main into the branch.
Merge(r) ==
    /\ pushing[r].pc = "idle"
    /\ \E conflict \in BOOLEAN :
          LET m == merge(commits, replica[r], NextHash, conflict)
          IN  /\ m.commits # commits => NextHash <= MaxCommits
              /\ commits' = m.commits
              /\ replica' = [replica EXCEPT ![r] = m.replica]
    /\ UNCHANGED <<remote, pushing, postVars, headVars, mergeVars>>

\* rebase the branch on origin/main.
Rebase(r) ==
    /\ pushing[r].pc = "idle"
    /\ LET b == rebase(commits, replica[r], NextHash)
       IN  /\ Cardinality(DOMAIN b.commits) <= MaxCommits
           /\ commits' = b.commits
           /\ replica' = [replica EXCEPT ![r] = b.replica]
    /\ UNCHANGED <<remote, pushing, postVars, headVars, mergeVars>>

\* lit stash: the call raises, or the state is saved on the stash stack and
\* the files are reset.
Stash(r) ==
    /\ pushing[r].pc = "idle"
    /\ \E message \in Messages :
          /\ RaisesNameError(message) \/ replica[r].stash < MaxStash
          /\ replica' = [replica EXCEPT ![r] = stash_push(replica[r], message)]
    /\ UNCHANGED <<commits, remote, pushing, postVars, headVars, mergeVars>>

\* push, lines 281-292: read both hashes, reject a non-fast-forward push,
\* find the objects to upload.
PushCheck(r) ==
    /\ pushing[r].pc = "idle"
    /\ LET local_hash == replica[r].main
           remote_hash == remote.main
       IN  IF remote_hash # None /\ ~is_ancestor(remote_hash, local_hash)
           THEN pushing' = [pushing EXCEPT ![r] = Idle]
           ELSE pushing' = [pushing EXCEPT ![r] =
                              [pc |-> "upload", local_hash |-> local_hash,
                               missing |-> find_missing_objects(local_hash, remote_hash),
                               listing |-> {}, downloaded |-> {}]]
    /\ UNCHANGED <<commits, replica, remote, postVars, headVars, mergeVars>>

\* push, lines 293-294: one of the missing objects is uploaded.
PushUpload(r) ==
    /\ pushing[r].pc = "upload"
    /\ \E obj_hash \in pushing[r].missing :
          /\ remote' = [remote EXCEPT !.objects = @ \cup {obj_hash}]
          /\ pushing' = [pushing EXCEPT ![r].missing = @ \ {obj_hash}]
    /\ UNCHANGED <<commits, replica, postVars, headVars, mergeVars>>

\* push, lines 296-297: all objects are uploaded, the remote ref is updated.
PushUpdateRef(r) ==
    /\ pushing[r].pc = "upload"
    /\ pushing[r].missing = {}
    /\ remote' = [remote EXCEPT !.main = pushing[r].local_hash]
    /\ pushing' = [pushing EXCEPT ![r] = Idle]
    /\ UNCHANGED <<commits, replica, postVars, headVars, mergeVars>>

LitNext ==
    \/ \E r \in Replicas : Commit(r)
    \/ \E r \in Replicas : FetchList(r)
    \/ \E r \in Replicas : FetchDownload(r)
    \/ \E r \in Replicas : FetchRefs(r)
    \/ \E r \in Replicas : Merge(r)
    \/ \E r \in Replicas : Rebase(r)
    \/ \E r \in Replicas : Stash(r)
    \/ \E r \in Replicas : PushCheck(r)
    \/ \E r \in Replicas : PushUpload(r)
    \/ \E r \in Replicas : PushUpdateRef(r)

(***************************************************************************)
(* Lit: three_way_merge_file and _merge_lines. A file is a sequence of     *)
(* bytes; a line is the bytes up to and including its line break.          *)
(***************************************************************************)
Bytes == {"a", "\n"}
Files == SeqsUpTo(Bytes, MaxFileLen)

RECURSIVE linesFrom(_, _, _)
\* The lines of s from position i on, given the line begun so far.
linesFrom(s, i, line) ==
    IF i > Len(s) THEN (IF line = <<>> THEN <<>> ELSE <<line>>)
    ELSE IF s[i] = "\n" THEN <<Append(line, s[i])>> \o linesFrom(s, i + 1, <<>>)
    ELSE linesFrom(s, i + 1, Append(line, s[i]))

\* bytes.decode().splitlines(keepends=True)
splitlines(s) == linesFrom(s, 1, <<>>)

\* align_lines: the three line lists side by side, by position; a version
\* that has no line at a position contributes the empty line.
align_lines(base_lines, ours_lines, theirs_lines) ==
    LET n == IF Len(base_lines) >= Len(ours_lines)
             THEN (IF Len(base_lines) >= Len(theirs_lines)
                   THEN Len(base_lines) ELSE Len(theirs_lines))
             ELSE (IF Len(ours_lines) >= Len(theirs_lines)
                   THEN Len(ours_lines) ELSE Len(theirs_lines))
        at(ls, i) == IF i <= Len(ls) THEN ls[i] ELSE <<>>
    IN  [i \in 1..n |-> [base_line |-> at(base_lines, i),
                         our_line |-> at(ours_lines, i),
                         their_line |-> at(theirs_lines, i)]]

\* The aligned line was changed differently on both sides.
LineConflict(a) ==
    a.our_line # a.their_line /\ a.base_line # a.their_line /\ a.base_line # a.our_line

\* The body of the loop of _merge_lines: what one aligned line adds to result.
merge_line(a) ==
    IF a.our_line = a.their_line THEN a.our_line
    ELSE IF a.base_line = a.their_line THEN a.our_line       \* we changed it
    ELSE IF a.base_line = a.our_line THEN a.their_line       \* they changed it
    ELSE <<"<<<<<<< HEAD\n">> \o a.our_line \o <<"=======\n">>
         \o a.their_line \o <<">>>>>>> theirs\n">>

merge_lines(base, ours, theirs) ==
    LET aligned == align_lines(splitlines(base), splitlines(ours), splitlines(theirs))
    IN  [content |-> Flatten([i \in 1..Len(aligned) |-> merge_line(aligned[i])]),
         had_conflicts |-> \E i \in 1..Len(aligned) : LineConflict(aligned[i])]

\* A merge whose cases 2 and 3 return the wrong side.
three_way_merge_file_Swapped(base, ours, theirs) ==
    IF ours = theirs THEN [content |-> ours, had_conflicts |-> FALSE]
    ELSE IF base = theirs THEN [content |-> theirs, had_conflicts |-> FALSE]
    ELSE IF base = ours THEN [content |-> ours, had_conflicts |-> FALSE]
    ELSE merge_lines(base, ours, theirs)

three_way_merge_file(base, ours, theirs) ==
    IF ours = theirs THEN [content |-> ours, had_conflicts |-> FALSE]
    ELSE IF base = theirs THEN [content |-> ours, had_conflicts |-> FALSE]
    ELSE IF base = ours THEN [content |-> theirs, had_conflicts |-> FALSE]
    ELSE merge_lines(base, ours, theirs)

NotRun == [done |-> FALSE, content |-> <<>>, had_conflicts |-> FALSE]
Ran(res) == [done |-> TRUE, content |-> res.content, had_conflicts |-> res.had_conflicts]

\* No file merge is under way.
MergeIdle ==
    merging = [base |-> <<>>, ours |-> <<>>, theirs |-> <<>>, ab |-> NotRun, ba |-> NotRun]

\* A file with a common ancestor version and the versions of two branches.
MergeInit ==
    merging \in {[base |-> b, ours |-> o, theirs |-> t, ab |-> NotRun, ba |-> NotRun] :
                   b \in Files, o \in Files, t \in Files}

\* The branch of `theirs` is merged into the branch of `ours`.
MergeTheirsIntoOurs ==
    /\ ~merging.ab.done
    /\ merging' = [merging EXCEPT !.ab =
                     Ran(three_way_merge_file(merging.base, merging.ours, merging.theirs))]
    /\ UNCHANGED <<postVars, headVars, litVars>>

\* The branch of `ours` is merged into the branch of `theirs`.
MergeOursIntoTheirs ==
    /\ ~merging.ba.done
    /\ merging' = [merging EXCEPT !.ba =
                     Ran(three_way_merge_file(merging.base, merging.theirs, merging.ours))]
    /\ UNCHANGED <<postVars, headVars, litVars>>

MergeNext ==
    \/ MergeTheirsIntoOurs
    \/ MergeOursIntoTheirs

(***************************************************************************)
(* The specifications: the post pages, the tag links of one post, the head *)
(* hook with the analytics scripts, and Lit.                               *)
(***************************************************************************)
Init == PostInit /\ HeadInit /\ LitInit /\ MergeIdle
Next == PostNext
Spec == Init /\ [][Next]_vars

InitTags == TagsInit /\ HeadInit /\ LitInit /\ MergeIdle
NextTags == TagsNext
SpecTags == InitTags /\ [][NextTags]_vars

InitHead == PostInit /\ HeadInit /\ LitInit /\ MergeIdle
NextHead == HeadNext
SpecHead == InitHead /\ [][NextHead]_vars

InitLit == PostInit /\ HeadInit /\ LitInit /\ MergeIdle
NextLit == LitNext
SpecLit == InitLit /\ [][NextLit]_vars

InitMerge == PostInit /\ HeadInit /\ LitInit /\ MergeInit
NextMerge == MergeNext
SpecMerge == InitMerge /\ [][NextMerge]_vars

\* One post with any tag list is built, and onRenderBody runs for a page.
InitKeys == TagsInit /\ HeadInit /\ LitInit /\ MergeIdle
NextKeys ==
    \/ \E p \in Paths : BuildPage(p, 0)
    \/ \E p \in Pathnames : OnRenderBody(p)
SpecKeys == InitKeys /\ [][NextKeys]_vars

(***************************************************************************)
(* The properties.                                                         *)
(***************************************************************************)
\* The node the build-time render was given, and its tags.
Remark == ssr.data.markdownRemark
RemarkTags == Remark.frontmatter.tags
Falsy(tags) == tags.kind \in {"null", "undefined"} \/ tags.items = <<>>

\* C1: for a post whose tags is a non-empty list, PostTemplate renders exactly
\* one link per element of tags, in the order of the list; the link of tag t
\* targets /blog/tags/<kebabCase(t)>/ and shows #t; nothing else is linked.
C1_TagLinks ==
    (ssr.page.status = "ok" /\ RemarkTags.kind = "list" /\ RemarkTags.items # <<>>) =>
        /\ Len(ssr.page.links) = Len(RemarkTags.items)
        /\ \A i \in 1..Len(RemarkTags.items) :
              /\ ssr.page.links[i].to =
                    <<"/blog/tags/">> \o kebabCase(RemarkTags.items[i]) \o <<"/">>
              /\ ssr.page.links[i].text = <<"#">> \o RemarkTags.items[i]

\* Two different tags were rendered, in order: "sD" to /blog/tags/s-d/ and
\* "D " to /blog/tags/d/.
C1_Witness ==
    /\ ssr.page.status = "ok"
    /\ RemarkTags.items = <<<<"s", "D">>, <<"D", " ">>>>
    /\ ssr.page.links[1].to = <<"/blog/tags/", "s", "-", "d", "/">>
    /\ ssr.page.links[2].to = <<"/blog/tags/", "d", "/">>
    /\ ssr.page.links[2].text = <<"#", "D", " ">>

\* C2, as stated: the HTML injected into the post content container has
\* passed a sanitizing step and is never the raw input.
C2_Sanitized ==
    ssr.page.status = "ok" => ssr.page.content = Sanitize(Remark.html)

\* C2, amended: the HTML injected into the post content container is
\* data.markdownRemark.html exactly as the query delivered it; the template
\* applies no sanitizing step of its own.
C2_InjectsQueriedHtml ==
    ssr.page.status = "ok" => ssr.page.content = Remark.html

\* A post whose html holds a script element was rendered, script included.
C2_Witness ==
    /\ ssr.page.status = "ok"
    /\ \E i \in 1..Len(Remark.html) : Remark.html[i] = "script"
    /\ \E i \in 1..Len(ssr.page.content) : ssr.page.content[i] = "script"

\* C3: on every page render onRenderBody calls setHeadComponents exactly once
\* and no other SSR setter, and passes the same list of 9 head elements
\* (5 link, 2 meta, 2 script) in the same order, whatever the page.
C3_HeadComponents ==
    head.pathname # "" =>
        /\ Len(head.calls) = 1
        /\ head.calls[1].setter = "setHeadComponents"
        /\ [i \in 1..Len(head.calls[1].components) |-> head.calls[1].components[i].key]
              = <<"apple-touch-icon", "icon32", "icon16", "manifest", "mask-icon",
                  "msapplication-TileColor", "theme-color", "gtag", "gtag-init">>
        /\ [i \in 1..Len(head.calls[1].components) |-> head.calls[1].components[i].type]
              = <<"link", "link", "link", "link", "link", "meta", "meta",
                  "script", "script">>

\* The home page was rendered, and its head was set.
C3_Witness ==
    /\ head.pathname = "/"
    /\ Len(head.calls) = 1
    /\ Len(head.calls[1].components) = 9

\* C4: the post rendered at page path p is a markdown node whose slug is p;
\* the title, date, tags and html of the page all come from that one node.
C4_PostOfPath ==
    ssr.page.status = "ok" =>
        \E i \in 1..Len(nodes) :
            /\ nodes[i].frontmatter.slug = ssr.path
            /\ ssr.page.heading = nodes[i].frontmatter.title
            /\ ssr.page.helmet = nodes[i].frontmatter.title
            /\ ssr.page.time =
                  toLocaleDateString(NewDate(nodes[i].frontmatter.date), ssr.tz)
            /\ ssr.page.links = TagLinks(nodes[i].frontmatter.tags).value
            /\ ssr.page.content = InnerHTML(nodes[i].html)

\* A page was rendered from the second node: the first has another slug and
\* another title, date and html.
C4_Witness ==
    /\ ssr.page.status = "ok"
    /\ Len(nodes) = 2
    /\ nodes[1].frontmatter.slug # ssr.path
    /\ nodes[1].frontmatter.title # ssr.page.heading
    /\ nodes[1].html # ssr.page.content

\* C5: the date displayed is the calendar date of the frontmatter (same year,
\* month and day, in en-US long form), for every time-zone offset of the
\* environment that renders the page, at build time and in the browser.
C5_CalendarDate ==
    /\ ssr.page.status = "ok" =>
          ssr.page.time = LongForm(Remark.frontmatter.date)
    /\ client.page.status = "ok" =>
          client.page.time = LongForm(Remark.frontmatter.date)

\* C6: when tags is null, undefined or an empty list, PostTemplate renders
\* without error and with zero tag links, and the title, the date and the
\* html are rendered exactly as for the same post with tags.
C6_FalsyTags ==
    (ssr.data.hasData /\ ~Remark.isNull /\ Falsy(RemarkTags)) =>
        LET tagged == [ssr.data EXCEPT
                         !.markdownRemark.frontmatter.tags = List(<<<<"s">>>>)]
            other == PostTemplate(tagged, ssr.path, ssr.tz)
        IN  /\ ssr.page.status = "ok"
            /\ ssr.page.links = <<>>
            /\ other.status = "ok"
            /\ other.links # <<>>
            /\ ssr.page.heading = other.heading
            /\ ssr.page.helmet = other.helmet
            /\ ssr.page.time = other.time
            /\ ssr.page.content = other.content

\* A post whose tags is null was rendered.
C6_Witness ==
    /\ ssr.data.hasData
    /\ ~Remark.isNull
    /\ RemarkTags.kind = "null"
    /\ ssr.page.status = "ok"

\* C7: PostTemplate renders without throwing for every result of pageQuery,
\* the result with markdownRemark null included.
C7_NeverThrows ==
    ssr.path # "" => ssr.page.status = "ok"

\* C8: two renders with the same data and location, the build-time render and
\* the hydration render, produce the same title, date text, tag links and
\* content, also in environments of different time zones.
C8_SameRender ==
    client.page.status = "ok" => client.page = ssr.page

\* C9: in every execution order of the async loader and the inline script,
\* the inline script keeps the entries already present in window.dataLayer
\* (it creates the array only when absent) and appends 'js', then 'config'.
C9_InitKeepsDataLayer ==
    [][("gtag-init" \in browser'.ran /\ "gtag-init" \notin browser.ran) =>
          browser'.dataLayer =
              [defined |-> TRUE,
               entries |-> browser.dataLayer.entries \o <<"js", "config">>,
               error |-> "none"]]_vars

\* The inline script ran after the loader had created the dataLayer and
\* reported an event on it.
C9_Witness ==
    /\ {"gtag", "gtag-init"} \subseteq browser.ran
    /\ Len(browser.dataLayer.entries) = 3
    /\ browser.dataLayer.entries[1] \in LoaderEvents
    /\ browser.dataLayer.entries[2] = "js"
    /\ browser.dataLayer.entries[3] = "config"

\* C10: a push whose remote hash is not an ancestor of the local hash raises,
\* uploads no object and leaves the remote ref unchanged; and in every
\* interleaving of pushes, a commit once reachable from the remote branch
\* stays reachable from it.
C10_NoLostUpdate ==
    [][/\ \A r \in Replicas :
             (PushCheck(r) /\ pushing'[r].pc = "idle") => remote' = remote
       /\ Ancestors(commits, remote.main) \subseteq Ancestors(commits', remote'.main)]_vars

\* C11: fetch changes only the object store, adding the objects that were
\* missing, and the ref refs/remotes/origin/main; the local branch, HEAD, the
\* index and the working directory are unchanged, as are the other replicas,
\* the remote and the commits; no stored object is downloaded again.
C11_FetchFrame ==
    [][\A r \in Replicas :
          (FetchList(r) \/ FetchDownload(r) \/ FetchRefs(r)) =>
              /\ replica'[r].main = replica[r].main
              /\ replica'[r].HEAD = replica[r].HEAD
              /\ replica'[r].index = replica[r].index
              /\ replica'[r].worktree = replica[r].worktree
              /\ replica'[r].stash = replica[r].stash
              /\ FetchList(r) => replica'[r] = replica[r]
              /\ FetchDownload(r) =>
                    LET visited == pushing[r].listing \ pushing'[r].listing
                        transferred == pushing'[r].downloaded \ pushing[r].downloaded
                    IN  /\ transferred \cap replica[r].objects = {}
                        /\ transferred = visited \ replica[r].objects
                        /\ pushing[r].downloaded \subseteq pushing'[r].downloaded
                        /\ replica'[r].objects = replica[r].objects \cup transferred
                        /\ replica'[r].origin_main = replica[r].origin_main
              /\ FetchRefs(r) =>
                    /\ replica'[r].objects = replica[r].objects
                    /\ replica'[r].origin_main = remote.main
              /\ \A q \in Replicas \ {r} : replica'[q] = replica[q]
              /\ remote' = remote
              /\ commits' = commits]_vars

\* A replica with work of its own has fetched a commit of the other replica:
\* its tracking ref has moved to a stored commit that its branch does not
\* reach, and its branch is where its own commit left it. The other replica
\* has visited every object of a listing: it downloaded the commit it lacked
\* and did not download the objects it had.
C11_Witness ==
    \E r \in Replicas : \E q \in Replicas \ {r} :
        /\ pushing[r].pc = "idle"
        /\ replica[r].origin_main \in replica[r].objects \ {1}
        /\ replica[r].main # None
        /\ ~is_ancestor(replica[r].origin_main, replica[r].main)
        /\ ~is_ancestor(replica[r].main, replica[r].origin_main)
        /\ pushing[q].pc = "download"
        /\ pushing[q].listing = {}
        /\ pushing[q].downloaded # {}
        /\ (remote.objects \cap replica[q].objects) \ pushing[q].downloaded # {}

\* C12: after merge(b) has completed (already up to date, fast-forward, or a
\* merge commit), an immediately repeated merge(b) finds the merge base equal
\* to b's commit, returns 'Already up to date' and changes no ref, object or
\* file.
C12_MergeIdempotent ==
    \A r \in Replicas : \A conflict \in BOOLEAN :
        LET first == merge(commits, replica[r], NextHash, conflict)
        IN  (pushing[r].pc = "idle" /\ first.message \in Completed) =>
                \A again \in BOOLEAN :
                    LET second == merge(first.commits, first.replica,
                                        Cardinality(DOMAIN first.commits) + 1, again)
                    IN  /\ find_merge_base(first.commits, first.replica.main,
                                           first.replica.origin_main)
                              = first.replica.origin_main
                        /\ second.message = "Already up to date"
                        /\ second.commits = first.commits
                        /\ second.replica = first.replica

\* A three-way merge has made a merge commit with two parents, one of them
\* the fetched branch, and the branch is on it with its files checked out.
C12_Witness ==
    \E r \in Replicas :
        /\ replica[r].main # None
        /\ Cardinality(commits[replica[r].main]) = 2
        /\ replica[r].origin_main \in commits[replica[r].main]
        /\ replica[r].worktree = replica[r].main

\* The file merge had to go line by line: the three versions differ pairwise.
PairwiseDifferent ==
    /\ merging.ours # merging.theirs
    /\ merging.base # merging.theirs
    /\ merging.base # merging.ours

\* C13: merging B into A and merging A into B produce the same
\* merged file content, also when both sides changed the same line.
C13_OrderIndependent ==
    (merging.ab.done /\ merging.ba.done) => merging.ab.content = merging.ba.content

\* C14: when ours = theirs the result is ours; when only ours differs from
\* base the result is ours; when only theirs differs from base the result is
\* theirs; in these cases no conflict is reported. A conflict is reported
\* only when the three versions differ pairwise, and then only if some
\* aligned line was changed differently on both sides.
C14_ThreeWayMergeFile ==
    merging.ab.done =>
        /\ merging.ours = merging.theirs =>
              merging.ab.content = merging.ours /\ ~merging.ab.had_conflicts
        /\ (merging.ours # merging.base /\ merging.theirs = merging.base) =>
              merging.ab.content = merging.ours /\ ~merging.ab.had_conflicts
        /\ (merging.theirs # merging.base /\ merging.ours = merging.base) =>
              merging.ab.content = merging.theirs /\ ~merging.ab.had_conflicts
        /\ merging.ab.had_conflicts =>
              /\ PairwiseDifferent
              /\ LET aligned == align_lines(splitlines(merging.base),
                                            splitlines(merging.ours),
                                            splitlines(merging.theirs))
                 IN  \E i \in 1..Len(aligned) :
                        /\ aligned[i].our_line # aligned[i].their_line
                        /\ aligned[i].our_line # aligned[i].base_line
                        /\ aligned[i].their_line # aligned[i].base_line

\* A merge reported a conflict: the second line was changed on both sides.
C14_Witness ==
    /\ merging.ab.done
    /\ merging.ab.had_conflicts
    /\ merging.base = <<"\n", "\n">>
    /\ merging.ours = <<"\n", "a">>
    /\ merging.theirs = <<"\n", "a", "a">>

\* C15: the React keys of the head elements passed to setHeadComponents are
\* pairwise distinct, and the keys of the tag links of one post are pairwise
\* distinct, also when the tags list holds the same tag twice.
C15_DistinctKeys ==
    /\ head.pathname # "" =>
          \A c \in 1..Len(head.calls) :
              \A i, j \in 1..Len(head.calls[c].components) :
                  i # j => head.calls[c].components[i].key
                              # head.calls[c].components[j].key
    /\ ssr.page.status = "ok" =>
          \A i, j \in 1..Len(ssr.page.links) :
              i # j => ssr.page.links[i].key # ssr.page.links[j].key

\* A post that lists the same tag twice was rendered with two links, and the
\* head of its page was set.
C15_Witness ==
    /\ head.pathname = ssr.path
    /\ Len(head.calls) = 1
    /\ ssr.page.status = "ok"
    /\ Len(ssr.page.links) = 2
    /\ RemarkTags.items[1] = RemarkTags.items[2]
    /\ RemarkTags.items[1] # <<>>

=============================================================================
